---- MODULE Spec2Model ----
(***************************************************************************)
(* OffersScreen (src/src/Screens/OffersScreen.tsx): the catalog loader     *)
(* (loadProducts, onRefresh, the mount effect) and the order submitter     *)
(* (handlePlaceOrder and the callbacks of its dialogs), as a state machine *)
(* whose steps are the handlers and promise continuations of the screen.   *)
(* A step is what runs between two suspension points of the JavaScript     *)
(* event loop: a user event handler up to its first await, or the          *)
(* continuation of a settled promise up to the end of the async function   *)
(* (including the continuation of a caller awaiting that function).        *)
(***************************************************************************)
EXTENDS Integers, Sequences, FiniteSets, TLC

\* ---------------------------------------------------------------- bounds
\* The activities the user may have unfinished at the same time: the
\* loadProducts invocations whose fetch is in flight or whose error notice is
\* still open, and the order submissions that are away from Idle.
MaxUnfinished == 3

\* ------------------------------------------------------------- constants
\* the default of the userId prop
userId == "USER001"
\* the fallback of payment_mode
FallbackPaymentMode == "COD"
\* the fixed delivery address
DeliveryAddress == "Default Address"
\* the fallback texts of the two error notices
LoadErrorFallback == "Failed to load products"
OrderErrorFallback == "Failed to place order"

\* Variant: the message is shown as it is, without a fallback.
OrElseNothing(a, b) == a

\* JavaScript's a || b on strings: the empty string (and an absent value,
\* written "" here) is falsy.
OrElse(a, b) == IF a = "" THEN b ELSE a

\* ------------------------------------------------- the external service
\* Products the inventory service may hold.  Rice is stored in two versions
\* (its terms change between two fetches); Salt is disabled and Tea is out
\* of stock.
Rice == [id |-> "P1", distributor_id |-> "D1", product_name |-> "Rice",
         price |-> 100, moq |-> 10, payment_modes |-> << >>,
         stock_quantity |-> 5, enabled |-> TRUE]
RiceV2 == [id |-> "P1", distributor_id |-> "D1", product_name |-> "Rice",
           price |-> 120, moq |-> 20, payment_modes |-> <<"UPI", "CARD">>,
           stock_quantity |-> 3, enabled |-> TRUE]
Oil == [id |-> "P2", distributor_id |-> "D2", product_name |-> "Oil",
        price |-> 50, moq |-> 50, payment_modes |-> <<"", "CARD">>,
        stock_quantity |-> 9, enabled |-> TRUE]
Salt == [id |-> "P3", distributor_id |-> "D1", product_name |-> "Salt",
         price |-> 20, moq |-> 5, payment_modes |-> <<"COD">>,
         stock_quantity |-> 7, enabled |-> FALSE]
Tea == [id |-> "P4", distributor_id |-> "D2", product_name |-> "Tea",
        price |-> 80, moq |-> 2, payment_modes |-> <<"UPI">>,
        stock_quantity |-> 0, enabled |-> TRUE]

\* The inventories the service may hold when a fetch reaches it.
Inventories == { << >>, <<Rice, Salt>>, <<Oil, Tea, RiceV2>> }

\* The messages a ServiceError may carry ("" is an absent message).
ErrorMessages == {"", "Network error"}
\* The order identifiers the service may return.
OrderIds == {"ORD-123"}

\* fetchProducts(distributorIdFilter?, onlyAvailable?): the responses the
\* service may give to a call with these arguments.
Matches(p, args) ==
    /\ (args.distributorId # "undefined" => p.distributor_id = args.distributorId)
    /\ (args.onlyAvailable => p.enabled /\ p.stock_quantity > 0)

getInventory(args) ==
    { SelectSeq(inv, LAMBDA p : Matches(p, args)) : inv \in Inventories }

\* ------------------------------------------------------------------ state
VARIABLES
    screen,      \* "rendered" (first render, effect not yet run), "active", "dismissed"
    products,    \* useState<Product[]>([])
    loading,     \* useState(true)
    refreshing,  \* useState(false)
    loads,       \* the unfinished loadProducts invocations, in the order they were issued
    orders,      \* the submissions that are not back in Idle, in the order they began
    last         \* the handler or continuation that ran last

vars == <<screen, products, loading, refreshing, loads, orders, last>>

NoRequest == [user_id |-> "", distributor_id |-> "", product_id |-> "",
              product_name |-> "", quantity |-> 0, price |-> 0,
              payment_mode |-> "", delivery_address |-> ""]

\* Alert.alert(title, message, buttons): kind names the buttons and their
\* callbacks; text and about are the variable parts of the message.  A
\* dialog is kept with the load or the order whose code opened it.
NoDetail == [price |-> 0, moq |-> 0]

NoAlert == [kind |-> "none", title |-> "", text |-> "", about |-> NoDetail,
            open |-> FALSE]

Alert(kind, title, text, about) ==
    [kind |-> kind, title |-> title, text |-> text, about |-> about, open |-> TRUE]

\* The step that ran last: its handler, for a step of loadProducts the
\* trigger of the invocation and the data its fetch resolved with, and for a
\* rejected call the message of the error (Rejected).
Ran(op, trigger, data) ==
    [op |-> op, trigger |-> trigger, data |-> data, message |-> "",
     at |-> 0]

Rejected(op, trigger, message) ==
    [op |-> op, trigger |-> trigger, data |-> << >>, message |-> message,
     at |-> 0]

\* The step handled the response to the fetch of the load that was at place
\* at of loads (loads is in the order of the loadProducts calls).
Resolved(trigger, data, at) ==
    [op |-> "LoadResolve", trigger |-> trigger, data |-> data, message |-> "",
     at |-> at]

Init ==
    /\ screen = "rendered"
    /\ products = << >>
    /\ loading = TRUE
    /\ refreshing = FALSE
    /\ loads = << >>
    /\ orders = << >>
    /\ last = Ran("render", "", << >>)

RemoveAt(seq, i) == SubSeq(seq, 1, i - 1) \o SubSeq(seq, i + 1, Len(seq))

\* A state setter of a component that was unmounted changes nothing.
SetState(old, new) == IF screen # "dismissed" THEN new ELSE old

\* An alert dialog is modal: while one is open the screen under it takes
\* no touch.
AlertOpen ==
    \/ \E l \in 1..Len(loads) : loads[l].alert.open
    \/ \E o \in 1..Len(orders) : orders[o].alert.open

\* The user starts no further activity (a pull to refresh, a tap on Place
\* Order) while MaxUnfinished of them are unfinished.
MayStart == Len(loads) + Len(orders) < MaxUnfinished

\* The list (with its RefreshControl and its Place Order buttons) is
\* rendered unless the loading view is returned instead.
ListRendered == screen = "active" /\ ~(loading /\ ~refreshing)

\* ---------------------------------------------------------- catalog loader
\* Variant: getInventory is called without the only-available argument.
NewLoadUnfiltered(trigger) ==
    [trigger |-> trigger,
     args |-> [distributorId |-> "undefined", onlyAvailable |-> FALSE],
     fetches |-> 1, status |-> "pending", alert |-> NoAlert, notices |-> 0]

\* loadProducts up to its await: setLoading(true) and the getInventory call.
\* fetches counts the getInventory calls of the invocation, notices its
\* Alert.alert calls.
NewLoad(trigger) ==
    [trigger |-> trigger,
     args |-> [distributorId |-> "undefined", onlyAvailable |-> TRUE],
     fetches |-> 1, status |-> "pending", alert |-> NoAlert, notices |-> 0]

\* Variant: a load that is part of a refresh leaves loading alone.
LoadingAtStartUnlessRefresh(prev, trigger) ==
    IF trigger = "refresh" THEN prev ELSE TRUE

\* setLoading(true), the first statement of loadProducts.
LoadingAtStart(prev, trigger) == TRUE

loadProducts(trigger) ==
    /\ loading' = SetState(loading, LoadingAtStart(loading, trigger))
    /\ loads' = Append(loads, NewLoad(trigger))

\* The finally block of loadProducts: setLoading(false), whether the fetch
\* resolved (ok) or rejected.
LoadingAtEnd(prev, ok) == FALSE

\* Variant: setRefreshing(false) is skipped when the load failed.
RefreshingAtEndOnSuccess(prev, ok) == IF ok THEN FALSE ELSE prev

\* onRefresh's setRefreshing(false), which runs when the loadProducts call
\* it awaits has settled, whether the fetch resolved (ok) or rejected.
RefreshingAtEnd(prev, ok) == FALSE

RefreshDone(l, ok) ==
    IF loads[l].trigger = "refresh"
    THEN SetState(refreshing, RefreshingAtEnd(refreshing, ok))
    ELSE refreshing

\* Variant: the fetched products are appended to the previous catalog.
FetchedMerged(prev, data) == prev \o data

\* The value setProducts is called with when the fetch resolved with data.
FetchedProducts(prev, data) == data

\* Variant: the catch block clears the catalog.
ProductsOnErrorCleared(prev) == << >>

\* products after a fetch that rejected: the catch block sets nothing.
ProductsOnError(prev) == prev

\* Variant: the effect has no dependency list and runs after every render.
MountEveryRender ==
    /\ screen # "dismissed"
    /\ Len(loads) < MaxUnfinished
    /\ screen' = "active"
    /\ loadProducts("mount")
    /\ last' = Ran("Mount", "mount", << >>)
    /\ UNCHANGED <<products, refreshing, orders>>

\* The mount effect: useEffect(() => { loadProducts(); }, []).
Mount ==
    /\ screen = "rendered"
    /\ screen' = "active"
    /\ loadProducts("mount")
    /\ last' = Ran("Mount", "mount", << >>)
    /\ UNCHANGED <<products, refreshing, orders>>

\* onRefresh up to its await: setRefreshing(true), then loadProducts.
onRefresh ==
    /\ ListRendered
    /\ ~AlertOpen
    /\ MayStart
    /\ refreshing' = SetState(refreshing, TRUE)
    /\ loadProducts("refresh")
    /\ last' = Ran("onRefresh", "refresh", << >>)
    /\ UNCHANGED <<screen, products, orders>>

\* The fetch of load l resolves with data: setProducts(data), the finally
\* block, and the rest of onRefresh when l was awaited by it.
LoadResolve(l, data) ==
    /\ loads[l].status = "pending"
    /\ data \in getInventory(loads[l].args)
    /\ products' = SetState(products, FetchedProducts(products, data))
    /\ loading' = SetState(loading, LoadingAtEnd(loading, TRUE))
    /\ refreshing' = RefreshDone(l, TRUE)
    /\ loads' = RemoveAt(loads, l)
    /\ last' = Resolved(loads[l].trigger, data, l)
    /\ UNCHANGED <<screen, orders>>

\* Variant: the catch block fetches again instead of giving up.
LoadRejectRetry(l, message) ==
    /\ loads[l].status = "pending"
    /\ loads[l].fetches = 1
    /\ loads' = [loads EXCEPT
                   ![l].fetches = @ + 1,
                   ![l].alert = Alert("loadError", "Error",
                                      OrElse(message, LoadErrorFallback), NoDetail),
                   ![l].notices = @ + 1]
    /\ last' = Rejected("LoadReject", loads[l].trigger, message)
    /\ UNCHANGED <<screen, products, loading, refreshing, orders>>

\* The fetch of load l rejects with an error: the catch block's alert, the
\* finally block, and the rest of onRefresh when l was awaited by it.
LoadReject(l, message) ==
    /\ loads[l].status = "pending"
    /\ products' = SetState(products, ProductsOnError(products))
    /\ loading' = SetState(loading, LoadingAtEnd(loading, FALSE))
    /\ refreshing' = RefreshDone(l, FALSE)
    /\ loads' = [loads EXCEPT
                   ![l].status = "failed",
                   ![l].alert = Alert("loadError", "Error",
                                      OrElse(message, LoadErrorFallback), NoDetail),
                   ![l].notices = @ + 1]
    /\ last' = Rejected("LoadReject", loads[l].trigger, message)
    /\ UNCHANGED <<screen, orders>>

\* The user dismisses (OK) the error notice of a failed load; the
\* invocation is finished.
DismissLoadError(l) ==
    /\ loads[l].alert.open
    /\ loads[l].alert.kind = "loadError"
    /\ loads' = RemoveAt(loads, l)
    /\ last' = Ran("DismissLoadError", loads[l].trigger, << >>)
    /\ UNCHANGED <<screen, products, loading, refreshing, orders>>

\* --------------------------------------------------------- order submitter
\* Variant: the fallback is used only when the list is empty.
PaymentModeFirstEntry(product) ==
    IF Len(product.payment_modes) = 0
    THEN FallbackPaymentMode
    ELSE product.payment_modes[1]

\* payment_mode: product.payment_modes[0] || 'COD'
PaymentMode(product) ==
    IF Len(product.payment_modes) = 0
    THEN FallbackPaymentMode
    ELSE OrElse(product.payment_modes[1], FallbackPaymentMode)

\* Variant: a quantity of one unit.
QuantityOne(product) == 1

\* quantity: product.moq
Quantity(product) == product.moq

\* The argument of createOrder, built from the product the handler closed over.
OrderRequest(product) ==
    [user_id |-> userId,
     distributor_id |-> product.distributor_id,
     product_id |-> product.id,
     product_name |-> product.product_name,
     quantity |-> Quantity(product),
     price |-> product.price,
     payment_mode |-> PaymentMode(product),
     delivery_address |-> DeliveryAddress]

\* Variant: the product is looked up again, by id, in the catalog that is
\* loaded when the callback runs.
LiveProduct(o) ==
    IF \E i \in 1..Len(products) : products[i].id = orders[o].product.id
    THEN products[CHOOSE i \in 1..Len(products) : products[i].id = orders[o].product.id]
    ELSE orders[o].product

\* The product the callbacks of order o's dialogs use: the argument of the
\* handlePlaceOrder call that opened the confirmation dialog.
CapturedProduct(o) == orders[o].product

\* handlePlaceOrder(product): the user taps Place Order on the i-th card;
\* the confirmation dialog opens (Idle -> Confirming).  calls counts the
\* createOrder calls of the submission, notices its Alert.alert calls after
\* the confirmation dialog; followed marks the submission that Follow picks.
handlePlaceOrder(i) ==
    /\ ListRendered
    /\ ~AlertOpen
    /\ MayStart
    /\ i \in 1..Len(products)
    /\ orders' = Append(orders,
          [product |-> products[i], status |-> "Confirming", followed |-> FALSE,
           request |-> NoRequest, calls |-> 0, order_id |-> "", notices |-> 0,
           alert |-> Alert("confirm", "Place Order", products[i].product_name,
                           [price |-> products[i].price, moq |-> products[i].moq])])
    /\ last' = Ran("handlePlaceOrder", "", << >>)
    /\ UNCHANGED <<screen, products, loading, refreshing, loads>>

\* The Cancel button of the confirmation dialog: no callback (-> Idle).
CancelPress(o) ==
    /\ orders[o].alert.open
    /\ orders[o].alert.kind = "confirm"
    /\ orders' = RemoveAt(orders, o)
    /\ last' = Ran("CancelPress", "", << >>)
    /\ UNCHANGED <<screen, products, loading, refreshing, loads>>

\* Variant: the call is made twice.
CallsTwice(prev) == prev + 2

\* The createOrder calls one press of Place Order makes.
CallsPerConfirm(prev) == prev + 1

\* The Place Order button of the confirmation dialog: its onPress up to the
\* await of createOrder (Confirming -> Submitting).
PlaceOrderPress(o) ==
    /\ orders[o].alert.open
    /\ orders[o].alert.kind = "confirm"
    /\ orders' = [orders EXCEPT
                    ![o].alert.open = FALSE,
                    ![o].status = "Submitting",
                    ![o].request = OrderRequest(CapturedProduct(o)),
                    ![o].calls = CallsPerConfirm(@)]
    /\ last' = Ran("PlaceOrderPress", "", << >>)
    /\ UNCHANGED <<screen, products, loading, refreshing, loads>>

\* Variant: the catalog is reloaded as soon as createOrder resolves, without
\* waiting for the OK button.
CreateOrderResolveReload(o, oid) ==
    /\ orders[o].status = "Submitting"
    /\ orders' = [orders EXCEPT
                    ![o].status = "Succeeded",
                    ![o].order_id = oid,
                    ![o].alert = Alert("success", "Success", oid, NoDetail),
                    ![o].notices = @ + 1]
    /\ loadProducts("order")
    /\ last' = Ran("CreateOrderResolve", "", << >>)
    /\ UNCHANGED <<screen, products, refreshing>>

\* createOrder resolves with an order: the success notice opens
\* (Submitting -> Succeeded).
CreateOrderResolve(o, oid) ==
    /\ orders[o].status = "Submitting"
    /\ orders' = [orders EXCEPT
                    ![o].status = "Succeeded",
                    ![o].order_id = oid,
                    ![o].alert = Alert("success", "Success", oid, NoDetail),
                    ![o].notices = @ + 1]
    /\ last' = Ran("CreateOrderResolve", "", << >>)
    /\ UNCHANGED <<screen, products, loading, refreshing, loads>>

\* Variant: the catch block also reloads the catalog.
CreateOrderRejectReload(o, message) ==
    /\ orders[o].status = "Submitting"
    /\ orders' = [orders EXCEPT
                    ![o].status = "Failed",
                    ![o].alert = Alert("orderError", "Error",
                                       OrElse(message, OrderErrorFallback), NoDetail),
                    ![o].notices = @ + 1]
    /\ loadProducts("order")
    /\ last' = Rejected("CreateOrderReject", "", message)
    /\ UNCHANGED <<screen, products, refreshing>>

\* createOrder rejects: the catch block's error notice opens
\* (Submitting -> Failed).
CreateOrderReject(o, message) ==
    /\ orders[o].status = "Submitting"
    /\ orders' = [orders EXCEPT
                    ![o].status = "Failed",
                    ![o].alert = Alert("orderError", "Error",
                                       OrElse(message, OrderErrorFallback), NoDetail),
                    ![o].notices = @ + 1]
    /\ last' = Rejected("CreateOrderReject", "", message)
    /\ UNCHANGED <<screen, products, loading, refreshing, loads>>

\* Variant: the OK button has no callback.
OkPressNoReload(o) ==
    /\ orders[o].alert.open
    /\ orders[o].alert.kind = "success"
    /\ orders' = RemoveAt(orders, o)
    /\ last' = Ran("OkPress", "order", << >>)
    /\ UNCHANGED <<screen, products, loading, refreshing, loads>>

\* The OK button of the success notice: onPress: () => loadProducts()
\* (Succeeded -> Idle).
OkPress(o) ==
    /\ orders[o].alert.open
    /\ orders[o].alert.kind = "success"
    /\ orders' = RemoveAt(orders, o)
    /\ loadProducts("order")
    /\ last' = Ran("OkPress", "order", << >>)
    /\ UNCHANGED <<screen, products, refreshing>>

\* Variant: dismissing the error notice asks for confirmation again (the
\* failed order is retried).
DismissOrderErrorRetry(o) ==
    /\ orders[o].alert.open
    /\ orders[o].alert.kind = "orderError"
    /\ orders' = [orders EXCEPT
                    ![o].status = "Confirming",
                    ![o].calls = 0,
                    ![o].notices = 0,
                    ![o].request = NoRequest,
                    ![o].alert = Alert("confirm", "Place Order",
                                       orders[o].product.product_name,
                                       [price |-> orders[o].product.price,
                                        moq |-> orders[o].product.moq])]
    /\ last' = Ran("DismissOrderError", "", << >>)
    /\ UNCHANGED <<screen, products, loading, refreshing, loads>>

\* The user dismisses (OK) the error notice of a failed submission: no
\* callback (Failed -> Idle).
DismissOrderError(o) ==
    /\ orders[o].alert.open
    /\ orders[o].alert.kind = "orderError"
    /\ orders' = RemoveAt(orders, o)
    /\ last' = Ran("DismissOrderError", "", << >>)
    /\ UNCHANGED <<screen, products, loading, refreshing, loads>>

\* The back arrow: navigation.goBack() unmounts the screen.
goBack ==
    /\ ListRendered
    /\ ~AlertOpen
    /\ screen' = "dismissed"
    /\ last' = Ran("goBack", "", << >>)
    /\ UNCHANGED <<products, loading, refreshing, loads, orders>>

\* ---------------------------------------------------------------- behaviour
Next ==
    \/ Mount
    \/ onRefresh
    \/ \E l \in 1..Len(loads) : \E data \in getInventory(loads[l].args) :
          LoadResolve(l, data)
    \/ \E l \in 1..Len(loads) : \E m \in ErrorMessages : LoadReject(l, m)
    \/ \E l \in 1..Len(loads) : DismissLoadError(l)
    \/ \E i \in 1..Len(products) : handlePlaceOrder(i)
    \/ \E o \in 1..Len(orders) : CancelPress(o)
    \/ \E o \in 1..Len(orders) : PlaceOrderPress(o)
    \/ \E o \in 1..Len(orders) : \E oid \in OrderIds : CreateOrderResolve(o, oid)
    \/ \E o \in 1..Len(orders) : \E m \in ErrorMessages : CreateOrderReject(o, m)
    \/ \E o \in 1..Len(orders) : OkPress(o)
    \/ \E o \in 1..Len(orders) : DismissOrderError(o)
    \/ goBack

Spec == Init /\ [][Next]_vars

\* One submission at a time is followed from any point of its life to its
\* return to Idle; following changes nothing the screen reads.
Follow(o) ==
    /\ \A p \in 1..Len(orders) : ~orders[p].followed
    /\ orders' = [orders EXCEPT ![o].followed = TRUE]
    /\ UNCHANGED <<screen, products, loading, refreshing, loads, last>>

\* The service answers the createOrder call of the followed submission.
Answer ==
    \E o \in 1..Len(orders) :
        /\ orders[o].followed
        /\ \/ \E oid \in OrderIds : CreateOrderResolve(o, oid)
           \/ \E m \in ErrorMessages : CreateOrderReject(o, m)

\* The user dismisses the notice that reports the followed submission's result.
Acknowledge ==
    \E o \in 1..Len(orders) :
        /\ orders[o].followed
        /\ (OkPress(o) \/ DismissOrderError(o))

\* At most this many loads and submissions are unfinished in LiveSpec.
MaxLive == 2

\* The handlers that start a load or a submission start it while fewer than
\* MaxLive are unfinished.
MayStartLive == Len(loads) + Len(orders) < MaxLive

NextLive ==
    \/ Mount
    \/ MayStartLive /\ onRefresh
    \/ \E l \in 1..Len(loads) : \E data \in getInventory(loads[l].args) :
          LoadResolve(l, data)
    \/ \E l \in 1..Len(loads) : \E m \in ErrorMessages : LoadReject(l, m)
    \/ \E l \in 1..Len(loads) : DismissLoadError(l)
    \/ \E i \in 1..Len(products) : MayStartLive /\ handlePlaceOrder(i)
    \/ \E o \in 1..Len(orders) : CancelPress(o)
    \/ \E o \in 1..Len(orders) : PlaceOrderPress(o)
    \/ \E o \in 1..Len(orders) : \E oid \in OrderIds : CreateOrderResolve(o, oid)
    \/ \E o \in 1..Len(orders) : \E m \in ErrorMessages : CreateOrderReject(o, m)
    \/ \E o \in 1..Len(orders) : OkPress(o)
    \/ \E o \in 1..Len(orders) : DismissOrderError(o)
    \/ goBack
    \/ \E o \in 1..Len(orders) : Follow(o)

\* The behaviours in which the service answers the createOrder call of the
\* followed submission and the user dismisses the notice of its result.
LiveSpec ==
    /\ Init
    /\ [][NextLive]_vars
    /\ WF_vars(Answer)
    /\ WF_vars(Acknowledge)


\* ------------------------------------------------------------ properties
\* The step just taken was the handler op (every handler records itself in
\* last).
Did(op) == last'.op = op

\* The step issued exactly one loadProducts invocation, with this trigger.
Issued(trigger) ==
    /\ Len(loads') = Len(loads) + 1
    /\ SubSeq(loads', 1, Len(loads)) = loads
    /\ loads'[Len(loads')] = NewLoad(trigger)

\* The orders for which createOrder has been called.
Submitted == { o \in 1..Len(orders) : orders[o].status # "Confirming" }

\* The dialogs that are open.
OpenAlerts ==
    Cardinality({ l \in 1..Len(loads) : loads[l].alert.open })
    + Cardinality({ o \in 1..Len(orders) : orders[o].alert.open })

\* C1: a load whose fetch fails leaves the catalog as it was: neither the
\* step that starts a load (mount, pull-to-refresh, reload after an order)
\* nor the step that handles the rejected fetch changes products.
C1_FailedLoadKeepsProducts ==
    [][ /\ (Did("LoadReject") => products' = products)
        /\ (Did("Mount") \/ Did("onRefresh") \/ Did("OkPress")
              => products' = products) ]_vars

\* A refresh has just failed while the catalog was not empty, and the error
\* notice of a failed reload after an order is still open.
C1_Witness ==
    /\ last.op = "LoadReject"
    /\ last.trigger = "refresh"
    /\ Len(products) > 0
    /\ \E l \in 1..Len(loads) :
          loads[l].trigger = "order" /\ loads[l].status = "failed"

\* C2: acknowledging the success notice issues exactly one loadProducts
\* invocation; the arrival of the order's result issues none, and neither
\* does a failed submission (its rejection, the dismissal of its notice).
C2_ReloadOnlyOnAcknowledgedSuccess ==
    [][ /\ (Did("OkPress") => Issued("order"))
        /\ (Did("CreateOrderResolve") \/ Did("CreateOrderReject")
              \/ Did("DismissOrderError") => loads' = loads) ]_vars

\* A success notice has just been acknowledged and the reload is in flight.
C2_Witness ==
    /\ last.op = "OkPress"
    /\ Len(loads) > 0
    /\ loads[Len(loads)].trigger = "order"
    /\ loads[Len(loads)].status = "pending"

\* C3: handling a failed submission (the rejection of createOrder, the
\* dismissal of its error notice) changes neither products nor loading nor
\* refreshing.
C3_FailedSubmissionKeepsViewState ==
    [][ Did("CreateOrderReject") \/ Did("DismissOrderError")
          => UNCHANGED <<products, loading, refreshing>> ]_vars

\* A submission has just failed while a catalog was loaded.
C3_Witness ==
    /\ last.op = "CreateOrderReject"
    /\ Len(products) > 0
    /\ \E o \in 1..Len(orders) : orders[o].status = "Failed"

\* C4: the request sent to createOrder carries the distributor id, product
\* id, name, quantity and price of the product as it was when the user
\* selected it, whatever the catalog holds when the user confirms.
C4_RequestFromSelectedProduct ==
    \A o \in Submitted :
        /\ orders[o].request.distributor_id = orders[o].product.distributor_id
        /\ orders[o].request.product_id = orders[o].product.id
        /\ orders[o].request.product_name = orders[o].product.product_name
        /\ orders[o].request.quantity = orders[o].product.moq
        /\ orders[o].request.price = orders[o].product.price

\* An order was confirmed right after a refresh had replaced the selected
\* product by another version of it.
C4_Witness ==
    /\ last.op = "PlaceOrderPress"
    /\ \E o \in Submitted :
          /\ orders[o].status = "Submitting"
          /\ \E i \in 1..Len(products) :
                /\ products[i].id = orders[o].product.id
                /\ products[i] # orders[o].product

\* C5 as stated: the payment mode is the fallback when the list is empty
\* and the first entry otherwise, whatever the first entry is.
C5_FirstEntryOrFallback ==
    \A o \in Submitted :
        orders[o].request.payment_mode
          = IF Len(orders[o].product.payment_modes) = 0
            THEN "COD"
            ELSE orders[o].product.payment_modes[1]

\* C5 amended: the payment mode is the fallback "COD" when the list is
\* empty or its first entry is the empty string, and the first entry
\* otherwise.
C5_FirstNonEmptyEntryOrFallback ==
    \A o \in Submitted :
        orders[o].request.payment_mode
          = IF \/ Len(orders[o].product.payment_modes) = 0
               \/ orders[o].product.payment_modes[1] = ""
            THEN "COD"
            ELSE orders[o].product.payment_modes[1]

\* An order was submitted for a product whose first payment mode is the
\* empty string, and another for a product with a non-empty first entry.
C5_Witness ==
    /\ \E o \in Submitted :
          /\ Len(orders[o].product.payment_modes) > 0
          /\ orders[o].product.payment_modes[1] = ""
    /\ \E o \in Submitted :
          /\ Len(orders[o].product.payment_modes) > 0
          /\ orders[o].product.payment_modes[1] # ""

\* C6: the quantity of a submitted request is the MOQ of its product, and
\* so is never less than it.
C6_QuantityIsMoq ==
    \A o \in Submitted :
        /\ orders[o].request.quantity = orders[o].product.moq
        /\ orders[o].request.quantity >= orders[o].product.moq

\* Orders for two products with different MOQs have been submitted.
C6_Witness ==
    \E o1, o2 \in Submitted :
        /\ orders[o1].product.moq = 50
        /\ orders[o2].product.moq = 10

\* C7: a confirmation makes exactly one createOrder call for its order and
\* none for another; a cancellation removes a submission for which no call
\* was made, opens no notice, issues no load and leaves the view state
\* alone; no other step makes a createOrder call.
C7_OneCallPerConfirmation ==
    [][ /\ (Did("PlaceOrderPress") =>
              \E o \in 1..Len(orders) :
                 /\ orders[o].status = "Confirming"
                 /\ orders[o].calls = 0
                 /\ orders'[o].status = "Submitting"
                 /\ orders'[o].calls = 1
                 /\ \A p \in 1..Len(orders) : p # o => orders'[p] = orders[p])
        /\ (Did("CancelPress") =>
              /\ \E o \in 1..Len(orders) :
                    /\ orders[o].status = "Confirming"
                    /\ orders[o].calls = 0
                    /\ orders' = RemoveAt(orders, o)
              /\ OpenAlerts' = OpenAlerts - 1
              /\ UNCHANGED <<screen, products, loading, refreshing, loads>>)
        /\ (~Did("PlaceOrderPress") /\ Len(orders') = Len(orders) =>
              \A o \in 1..Len(orders) : orders'[o].calls = orders[o].calls) ]_vars

\* One submission has just been cancelled while the call of another, which
\* was confirmed, is in flight.
C7_Witness ==
    /\ last.op = "CancelPress"
    /\ \E o \in 1..Len(orders) :
          orders[o].status = "Submitting" /\ orders[o].calls = 1

\* C8 as stated: an initial or post-order load sets loading, and a
\* pull-to-refresh sets refreshing and does not turn loading on.
C8_RefreshLeavesLoadingOff ==
    [][ /\ ((Did("Mount") \/ Did("OkPress")) /\ screen' = "active" => loading')
        /\ (Did("onRefresh") => refreshing' /\ ~(~loading /\ loading')) ]_vars

\* C8 amended: every load, the one of a pull-to-refresh included, sets
\* loading when it starts; a pull-to-refresh sets refreshing as well; both
\* flags then stay set until a load completes.
C8_EveryLoadSetsLoading ==
    [][ /\ ((Did("Mount") \/ Did("OkPress") \/ Did("onRefresh"))
              /\ screen' = "active" => loading')
        /\ (Did("onRefresh") => refreshing')
        /\ (~Did("LoadResolve") /\ ~Did("LoadReject") =>
              /\ (loading => loading')
              /\ (refreshing => refreshing')) ]_vars

\* A pull-to-refresh has just started with both flags set.
C8_Witness ==
    /\ last.op = "onRefresh"
    /\ loading
    /\ refreshing
    /\ loads[Len(loads)].trigger = "refresh"

\* C9: when an explicit refresh has just completed, by a resolved or by a
\* rejected fetch, loading and refreshing are both false.
C9_RefreshClearsBothFlags ==
    /\ last.op \in {"LoadResolve", "LoadReject"}
    /\ last.trigger = "refresh"
    /\ screen = "active"
    => ~loading /\ ~refreshing

\* A refresh has just completed by a rejected fetch.
C9_Witness ==
    /\ last.op = "LoadReject"
    /\ last.trigger = "refresh"
    /\ screen = "active"
    /\ \E l \in 1..Len(loads) : loads[l].alert.open

\* C10: a load whose fetch resolves makes products exactly the fetched
\* sequence, in the order of the response, and opens no notice, also when
\* the response is empty.
C10_ProductsAreTheResponse ==
    [][ Did("LoadResolve") =>
          /\ (screen' = "active" => products' = last'.data)
          /\ OpenAlerts' = OpenAlerts ]_vars

\* A refresh has just resolved with an empty response: the catalog is empty
\* and no notice is open.
C10_Witness ==
    /\ last.op = "LoadResolve"
    /\ last.trigger = "refresh"
    /\ last.data = << >>
    /\ products = << >>
    /\ screen = "active"
    /\ ~AlertOpen

\* C11: a load triggered by an order is issued only by the step that
\* acknowledges that order's success notice (the OK press), that is after
\* createOrder has resolved for it and never while its call is in flight.
C11_ReloadAfterAcknowledgement ==
    [][ (/\ Len(loads') > Len(loads)
         /\ loads'[Len(loads')].trigger = "order")
        => /\ Did("OkPress")
           /\ \E o \in 1..Len(orders) :
                 /\ orders[o].status = "Succeeded"
                 /\ orders[o].calls = 1
                 /\ orders[o].alert.kind = "success"
                 /\ orders[o].alert.open
                 /\ orders' = RemoveAt(orders, o) ]_vars

\* A success notice has just been acknowledged and its reload is in flight,
\* while the createOrder call of another order is still in flight.
C11_Witness ==
    /\ last.op = "OkPress"
    /\ Len(loads) > 0
    /\ loads[Len(loads)].trigger = "order"
    /\ loads[Len(loads)].status = "pending"
    /\ \E o \in 1..Len(orders) : orders[o].status = "Submitting"

\* C12: a loadProducts invocation is issued only by the mount effect, by a
\* pull-to-refresh or by the acknowledgement of a success notice, one per
\* such step; every invocation makes one fetch call, and the handling of a
\* rejected fetch issues no invocation and no further fetch call.
C12_LoadsOnlyFromTheirTriggers ==
    [][ /\ (Len(loads') > Len(loads) =>
              \/ Did("Mount") /\ Issued("mount")
              \/ Did("onRefresh") /\ Issued("refresh")
              \/ Did("OkPress") /\ Issued("order"))
        /\ (\A l \in 1..Len(loads') : loads'[l].fetches = 1)
        /\ (Did("LoadReject") =>
              /\ Len(loads') = Len(loads)
              /\ \A l \in 1..Len(loads) :
                    /\ loads'[l].fetches = loads[l].fetches
                    /\ loads[l].status # "pending" => loads'[l] = loads[l]
                    /\ loads'[l].status = "pending" => loads'[l] = loads[l]) ]_vars

\* The fetch of a reload after an order has just been rejected: the
\* invocation made one fetch call and no fetch is in flight.
C12_Witness ==
    /\ last.op = "LoadReject"
    /\ last.trigger = "order"
    /\ \A l \in 1..Len(loads) : loads[l].status = "failed" /\ loads[l].fetches = 1
    /\ Len(loads) > 0

\* C13: every fetch is issued with the only-available filter set and without
\* a distributor filter, and every product of the loaded catalog is enabled
\* and in stock (the service applying the filter it is given).
C13_OnlyAvailableProducts ==
    /\ \A l \in 1..Len(loads) :
          /\ loads[l].args.onlyAvailable
          /\ loads[l].args.distributorId = "undefined"
    /\ \A i \in 1..Len(products) :
          products[i].enabled /\ products[i].stock_quantity > 0

\* The catalog was loaded from the inventory that also holds a product out
\* of stock, and a further fetch is in flight.
C13_Witness ==
    /\ products = <<Oil, RiceV2>>
    /\ \E l \in 1..Len(loads) : loads[l].status = "pending"

\* C14: the initial load is issued by the mount effect only, in the step
\* that activates the screen, and sets loading; the effect never runs again
\* once the screen is active, whatever state changes re-render it.
C14_InitialLoadOnce ==
    [][ /\ (Did("Mount") =>
              /\ screen = "rendered"
              /\ screen' = "active"
              /\ Issued("mount")
              /\ loading')
        /\ (Len(loads') > Len(loads) /\ loads'[Len(loads')].trigger = "mount"
              => Did("Mount"))
        /\ (screen = "rendered" => loads = << >> /\ Did("Mount"))
        /\ (screen # "rendered" => screen' # "rendered") ]_vars

\* The screen is active, its state has changed several times (the initial
\* load resolved, a refresh resolved, an order was selected) and no initial
\* load is in flight.
C14_Witness ==
    /\ screen = "active"
    /\ last.op = "handlePlaceOrder"
    /\ Len(products) > 0
    /\ ~refreshing
    /\ \A l \in 1..Len(loads) : loads[l].trigger # "mount"
    /\ \E l \in 1..Len(loads) : loads[l].trigger = "order"

ForwardTransitions ==
    { <<"Idle", "Confirming">>, <<"Confirming", "Submitting">>,
      <<"Submitting", "Succeeded">>, <<"Submitting", "Failed">>,
      <<"Succeeded", "Idle">>, <<"Failed", "Idle">> }

\* The step changes the state of submissions by the allowed transitions only:
\* a submission that appears is in Confirming, one that disappears (is back
\* in Idle) was in a state from which Idle is allowed, and one that stays
\* keeps its state or changes it by an allowed transition.
Transitions(allowed) ==
    /\ Len(orders') > Len(orders) =>
          /\ <<"Idle", "Confirming">> \in allowed
          /\ Len(orders') = Len(orders) + 1
          /\ orders'[Len(orders')].status = "Confirming"
          /\ SubSeq(orders', 1, Len(orders)) = orders
    /\ Len(orders') < Len(orders) =>
          \E o \in 1..Len(orders) :
             /\ orders' = RemoveAt(orders, o)
             /\ <<orders[o].status, "Idle">> \in allowed
    /\ Len(orders') = Len(orders) =>
          \A o \in 1..Len(orders) :
             \/ orders'[o].status = orders[o].status
             \/ <<orders[o].status, orders'[o].status>> \in allowed

\* The followed submission, once in Submitting, is eventually back in Idle.
SubmittingLeadsToIdle ==
    (\E o \in 1..Len(orders) : orders[o].followed /\ orders[o].status = "Submitting")
        ~> (\A o \in 1..Len(orders) : ~orders[o].followed)

\* C15 as stated: a submission only moves Idle -> Confirming -> Submitting ->
\* (Succeeded | Failed) -> Idle, and one that is in Submitting is eventually
\* back in Idle.
C15_OnlyForwardTransitions ==
    /\ [][Transitions(ForwardTransitions)]_vars
    /\ SubmittingLeadsToIdle

\* C15 amended: the same, with the transition Confirming -> Idle of a
\* cancellation as the only further transition.
C15_SubmissionCycle ==
    /\ [][Transitions(ForwardTransitions \cup { <<"Confirming", "Idle">> })]_vars
    /\ SubmittingLeadsToIdle

\* A failed submission has just returned to Idle by the dismissal of its
\* notice, while another submission waits for its answer.
C15_Witness ==
    /\ last.op = "DismissOrderError"
    /\ Len(orders) = 1
    /\ orders[1].status = "Submitting"
    /\ ~orders[1].followed
    /\ loads = << >>

\* The step is the completion (success or failure) of a fetch or of a
\* createOrder call.
Completion ==
    \/ Did("LoadResolve") \/ Did("LoadReject")
    \/ Did("CreateOrderResolve") \/ Did("CreateOrderReject")

\* C16: once the screen is dismissed, the completion of a fetch or of a
\* createOrder call that was in flight shows no notice, changes nothing of
\* the view state and issues no further service call.
C16_SilentAfterDismissal ==
    [][ (screen = "dismissed" /\ Completion)
           => /\ OpenAlerts' = OpenAlerts
              /\ <<products, loading, refreshing>>' = <<products, loading, refreshing>>
              /\ Len(loads') <= Len(loads)
              /\ \A o \in 1..Len(orders) :
                    Len(orders') = Len(orders) /\ orders'[o].calls = orders[o].calls ]_vars

\* C17: a failed attempt shows exactly one notice, whose text is the message
\* of the service's error when there is one and otherwise the fallback
\* ('Failed to load products' for a fetch, 'Failed to place order' for a
\* submission); the view state holds no error: the catalog is as before and
\* the flags are plain booleans.
C17_OneNoticePerFailure ==
    [][ /\ Did("LoadReject") =>
              /\ OpenAlerts' = OpenAlerts + 1
              /\ \E l \in 1..Len(loads) :
                    /\ loads[l].status = "pending" /\ loads[l].notices = 0
                    /\ loads' = [loads EXCEPT ![l] = loads'[l]]
                    /\ loads'[l].status = "failed" /\ loads'[l].notices = 1
                    /\ loads'[l].alert.open
                    /\ loads'[l].alert.text =
                          IF last'.message # "" THEN last'.message
                          ELSE "Failed to load products"
              /\ orders' = orders
        /\ Did("CreateOrderReject") =>
              /\ OpenAlerts' = OpenAlerts + 1
              /\ \E o \in 1..Len(orders) :
                    /\ orders[o].status = "Submitting" /\ orders[o].notices = 0
                    /\ orders' = [orders EXCEPT ![o] = orders'[o]]
                    /\ orders'[o].status = "Failed" /\ orders'[o].notices = 1
                    /\ orders'[o].alert.open
                    /\ orders'[o].alert.text =
                          IF last'.message # "" THEN last'.message
                          ELSE "Failed to place order"
              /\ loads' = loads
        /\ (Did("LoadReject") \/ Did("CreateOrderReject")) =>
              /\ products' = products
              /\ loading' \in BOOLEAN /\ refreshing' \in BOOLEAN ]_vars

\* A createOrder call has just failed without a message and the fallback is
\* shown, while the notice of a fetch that failed with a message is open.
C17_Witness ==
    /\ last.op = "CreateOrderReject"
    /\ last.message = ""
    /\ \E o \in 1..Len(orders) :
          orders[o].alert.open /\ orders[o].alert.text = "Failed to place order"
    /\ \E l \in 1..Len(loads) :
          loads[l].alert.open /\ loads[l].alert.text = "Network error"

\* The loads whose fetch is in flight.
InFlight == { l \in 1..Len(loads) : loads[l].status = "pending" }

\* C18: on the mounted screen, loading is true whenever the fetch of some
\* loadProducts invocation is in flight.
C18_LoadingWhileFetching ==
    (screen = "active" /\ InFlight # {}) => loading

\* C19: the response to a fetch that arrives right after the response to a
\* fetch issued later (one that stood further back in loads) leaves the
\* catalog of the mounted screen as it is: a stale response never overwrites
\* a newer one.
C19_FreshestResponseWins ==
    [][ (/\ last.op = "LoadResolve"
         /\ Did("LoadResolve")
         /\ last'.at < last.at
         /\ screen = "active")
           => products' = products ]_vars

\* The submissions whose createOrder call is unresolved.
Submitting == { o \in 1..Len(orders) : orders[o].status = "Submitting" }

\* C20: at most one createOrder call is unresolved at any time.
C20_OneSubmissionInFlight == Cardinality(Submitting) <= 1

====
